---- MODULE Spec2Model ----
(***************************************************************************)
(* Model of the futures trading core: FuturesTrader (src/futures/trader.py)*)
(* on top of FuturesDataProvider (src/futures/data_provider.py).           *)
(*                                                                         *)
(* The trader is a single synchronous thread of control.  A public         *)
(* operation runs as one action up to its only suspension point, the       *)
(* order-fill poll loop; each iteration of that loop is one WaitUpdate     *)
(* step, and the iteration that leaves the loop runs the handler to its    *)
(* return.  The gateway (TqApi) is the environment: the outcome of every   *)
(* gateway call is an input drawn with \E.                                 *)
(*                                                                         *)
(* Encodings: an Optional value is a set with at most one element ({} is   *)
(* None); an f-string is the sequence of its pieces, numbers rendered by   *)
(* ToString; TradeResult.timestamp (datetime.now) is left out.             *)
(***************************************************************************)
EXTENDS Integers, Sequences, FiniteSets, TLC

\* ---------------------------------------------------------------- bounds
MaxVolume == 2
MaxOrders == 1         \* orders the gateway accepts under Spec
MaxLoggedOrders == 2   \* orders the gateway accepts under SpecHistory
MaxTokens == 3         \* tokens of a freely composed model response
MaxOldBars == 11       \* bars of a kline series before its last ten
MaxMidBars == 5        \* bars of a kline series before its last five
MaxNewBars == 5        \* the newest bars of a kline series

\* ------------------------------------------------------- program constants
MarginPerLot == 10000

\* ------------------------------------------------------------ input sets
Symbols == {"SHFE.au2506"}
Volumes == 0..MaxVolume
MaxPositionChoices == {1, 2}
AvailableChoices == {0, 15000, MaxVolume * MarginPerLot}
GatewayErrors == {"timeout", "rejected"}
LimitPrices == {{}, {100}}
\* (stop_loss, take_profit) of a directly built TradeSignal
Protections == {<<{}, {}>>, <<{95}, {}>>, <<{}, {110}>>}
GatewayTradePrices == {0, 101}

None == {}
Some(x) == {x}
Value(opt) == CHOOSE x \in opt : TRUE
\* Python truthiness of an Optional[float]: None and 0.0 are falsy
Truthy(opt) == opt # {} /\ opt # {0}
\* faulty variant: the "or" falls back to the default even for a set limit price
OrElse_always_default(opt, d) == d

\* Python "x or d"
OrElse(opt, d) == IF Truthy(opt) THEN Value(opt) ELSE d

VARIABLES
  config,         \* get_config(): limits, kill switch, gateway credentials
  t_connected,    \* FuturesTrader._connected
  p_connected,    \* FuturesDataProvider._connected (and _api is not None)
  trade_history,  \* FuturesTrader._trade_history
  nOrders,        \* number of orders the gateway has accepted so far
  pc,             \* "idle" | "polling" | "done"
  call,           \* the operation in progress or last finished
  connChecked,    \* the connection check of this call succeeded
  risk,           \* result of _risk_check in this call
  order,          \* the gateway's order handle of this call
  ordStatus,      \* lifecycle of this call's order
  gwCalls,        \* gateway (TqApi) calls made during this call
  slCalled,       \* _set_stop_loss_take_profit ran in this call
  gwEnv,          \* what the gateway answered (or would have) in this call
  result,         \* what the call handed to its caller
  response,       \* what _call_api_with_retry did in the last analyze()
  analyzed,       \* the FuturesAnalysisResult the last analyze() returned
  context         \* the last indicator computation: its inputs and results

vars == <<config, t_connected, p_connected, trade_history, nOrders, pc, call,
          connChecked, risk, order, ordStatus, gwCalls, slCalled, gwEnv,
          result, response, analyzed, context>>

traderVars == <<config, t_connected, p_connected, trade_history, nOrders, pc,
                call, connChecked, risk, order, ordStatus, gwCalls, slCalled,
                gwEnv, result>>
analyzerVars == <<response, analyzed>>
indicatorVars == <<context>>

\* ------------------------------------------------------------ value types
\* tq_auth: tq_account and tq_password are both set;
\* tq_real: tq_broker and tq_real_account are both set
\* <<tq_auth, use_sim, tq_real>>
GatewaySettings == {<<FALSE, TRUE, FALSE>>, <<TRUE, TRUE, FALSE>>,
                    <<TRUE, FALSE, FALSE>>}
Configs == {[futures_max_position |-> m, futures_auto_trade |-> a,
             tq_auth |-> g[1], use_sim |-> g[2], tq_real |-> g[3]] :
            m \in MaxPositionChoices, a \in BOOLEAN, g \in GatewaySettings}

TradeSignals == {[symbol |-> s, direction |-> d, volume |-> v, price |-> p,
                  stop_loss |-> pr[1], take_profit |-> pr[2]] :
                 s \in Symbols, d \in {"LONG", "SHORT", "CLOSE"},
                 v \in Volumes, p \in LimitPrices, pr \in Protections}

\* FuturesAnalysisResult, the fields execute_analysis reads
Analyses == {[symbol |-> s, direction |-> d, operation_advice |-> adv,
              position_size |-> n, entry_price |-> e,
              stop_loss |-> pr[1], take_profit |-> pr[2]] :
             s \in Symbols, d \in {"LONG", "SHORT", "WAIT", "HOLD"},
             adv \in {"observe", "go long"}, n \in -1..MaxVolume,
             e \in {0, 100}, pr \in {<<0, 0>>, <<95, 0>>, <<0, 110>>}}

\* what the gateway holds per symbol: (pos_long, pos_short)
PositionSymbols == {"SHFE.au2506", "SHFE.rb2510"}
Holdings == {[au |-> a, rb |-> r] :
             a \in {<<0, 0>>, <<MaxVolume, 0>>, <<0, 1>>, <<MaxVolume, 1>>},
             r \in {<<0, 0>>, <<1, 0>>}}
HoldingOutcomes == {None} \cup {Some(h) : h \in Holdings}

AccountOutcomes == {None} \cup {Some([available |-> a]) : a \in AvailableChoices}

NoCall == [name |-> "none", dry_run |-> FALSE, symbol |-> "", direction |-> "",
           volume |-> 0, price |-> None, stop_loss |-> None, take_profit |-> None,
           a_direction |-> "", a_advice |-> ""]
NoRisk == [checked |-> FALSE, passed |-> FALSE, reason |-> <<>>,
           account |-> None]
\* account, holdings: what the gateway answered to the account query (or would
\* have) and to the position query; error: the exception it raised
NoEnv == [account |-> None, error |-> <<>>, holdings |-> None]
NoOrder == [symbol |-> "", direction |-> "", offset |-> "", volume |-> 0,
            limit_price |-> None, status |-> "", filled |-> FALSE,
            trade_price |-> 0, order_id |-> 0]
NoResult == [kind |-> "none", success |-> FALSE, symbol |-> "", direction |-> "",
             volume |-> 0, price |-> 0, order_id |-> "", message |-> <<>>]

TradeResult(success, symbol, direction, volume, price, order_id, message) ==
  [kind |-> "returned", success |-> success, symbol |-> symbol,
   direction |-> direction, volume |-> volume, price |-> price,
   order_id |-> order_id, message |-> message]

\* an exception that escapes the operation to its caller
Raised(message) ==
  [kind |-> "raised", success |-> FALSE, symbol |-> "", direction |-> "",
   volume |-> 0, price |-> 0, order_id |-> "", message |-> message]

\* TradeResult.to_dict(): the entry kept in the history
to_dict(r) == [success |-> r.success, symbol |-> r.symbol,
               direction |-> r.direction, volume |-> r.volume,
               price |-> r.price, order_id |-> r.order_id,
               message |-> r.message]

\* ------------------------------------------------- FuturesDataProvider
\* connect(): [ok, p (the new _connected), calls (gateway calls made)]
provider_connect(p, connOk) ==
  IF p THEN [ok |-> TRUE, p |-> TRUE, calls |-> {}]
  ELSE IF ~config.tq_auth THEN [ok |-> FALSE, p |-> FALSE, calls |-> {}]
  ELSE IF ~config.use_sim /\ ~config.tq_real
       THEN [ok |-> FALSE, p |-> FALSE, calls |-> {}]
  \* TqApi(...) either returns a session or raises (caught: return False)
  ELSE [ok |-> connOk, p |-> connOk, calls |-> {"TqApi"}]

provider_ensure_connection(p, connOk) ==
  IF ~p THEN provider_connect(p, connOk)
  ELSE [ok |-> TRUE, p |-> p, calls |-> {}]

\* get_account(): acctOut is what the gateway query yields, None when it raises
get_account(p, connOk, acctOut) ==
  LET e == provider_ensure_connection(p, connOk)
  IN IF ~e.ok THEN [account |-> None, p |-> e.p, calls |-> e.calls]
     ELSE [account |-> acctOut, p |-> e.p,
           calls |-> e.calls \cup {"get_account"}]

\* get_positions(): per symbol (in dir() order) the LONG entry, then the SHORT
\* entry; holdOut is None when the gateway query raises (caught: return [])
PositionsOf(sym, h) ==
  (IF h[1] > 0 THEN <<[symbol |-> sym, direction |-> "LONG", volume |-> h[1]]>>
   ELSE <<>>)
  \o (IF h[2] > 0
      THEN <<[symbol |-> sym, direction |-> "SHORT", volume |-> h[2]]>>
      ELSE <<>>)

get_positions(p, connOk, holdOut) ==
  LET e == provider_ensure_connection(p, connOk)
  IN IF ~e.ok THEN [positions |-> <<>>, p |-> e.p, calls |-> e.calls]
     ELSE [positions |-> IF holdOut = None THEN <<>>
                         ELSE PositionsOf("SHFE.au2506", Value(holdOut).au)
                              \o PositionsOf("SHFE.rb2510", Value(holdOut).rb),
           p |-> e.p, calls |-> e.calls \cup {"get_position"}]

\* ------------------------------------------------------- FuturesTrader
connect(t, p, connOk) ==
  IF t THEN [ok |-> TRUE, t |-> t, p |-> p, calls |-> {}]
  ELSE LET r == provider_connect(p, connOk)
       IN [ok |-> r.ok, t |-> r.ok, p |-> r.p, calls |-> r.calls]

ensure_connection(t, p, connOk) ==
  IF ~t THEN connect(t, p, connOk)
  ELSE [ok |-> TRUE, t |-> t, p |-> p, calls |-> {}]

\* faulty variant: the connection check forgets the dry_run test
connection_check_always(dry_run, connOk) ==
  ensure_connection(t_connected, p_connected, connOk)

\* "not dry_run and not self._ensure_connection()": a dry run skips the check
connection_check(dry_run, connOk) ==
  IF dry_run
  THEN [ok |-> FALSE, t |-> t_connected, p |-> p_connected, calls |-> {}]
  ELSE ensure_connection(t_connected, p_connected, connOk)

\* the reasons of _risk_check, as the f-strings build them
MaxPositionReason(volume, max_pos) ==
  <<"over max position (", ToString(volume), " > ", ToString(max_pos), ")">>
FundsReason(available) ==
  <<"insufficient funds (available: ", ToString(available), ")">>
AutoTradeReason == <<"auto trade not enabled (set FUTURES_AUTO_TRADE=true)">>

\* faulty variant: the kill switch is not consulted
risk_check_no_kill_switch(signal, p, connOk, acctOut) ==
  LET max_pos == config.futures_max_position
  IN IF signal.volume > max_pos
     THEN [checked |-> TRUE, passed |-> FALSE,
           reason |-> MaxPositionReason(signal.volume, max_pos),
           account |-> None, p |-> p, calls |-> {}]
     ELSE LET ga == get_account(p, connOk, acctOut)
              account == ga.account
          IN IF account # None
                /\ Value(account).available < signal.volume * MarginPerLot
             THEN [checked |-> TRUE, passed |-> FALSE,
                   reason |-> FundsReason(Value(account).available),
                   account |-> account, p |-> ga.p, calls |-> ga.calls]
             ELSE [checked |-> TRUE, passed |-> TRUE, reason |-> <<>>,
                   account |-> account, p |-> ga.p, calls |-> ga.calls]

\* faulty variant: the funds check runs before the max-position check
risk_check_funds_first(signal, p, connOk, acctOut) ==
  LET max_pos == config.futures_max_position
      ga == get_account(p, connOk, acctOut)
      account == ga.account
  IN IF account # None
        /\ Value(account).available < signal.volume * MarginPerLot
     THEN [checked |-> TRUE, passed |-> FALSE,
           reason |-> FundsReason(Value(account).available),
           account |-> account, p |-> ga.p, calls |-> ga.calls]
     ELSE IF signal.volume > max_pos
     THEN [checked |-> TRUE, passed |-> FALSE,
           reason |-> MaxPositionReason(signal.volume, max_pos),
           account |-> account, p |-> ga.p, calls |-> ga.calls]
     ELSE IF ~config.futures_auto_trade
     THEN [checked |-> TRUE, passed |-> FALSE, reason |-> AutoTradeReason,
           account |-> account, p |-> ga.p, calls |-> ga.calls]
     ELSE [checked |-> TRUE, passed |-> TRUE, reason |-> <<>>,
           account |-> account, p |-> ga.p, calls |-> ga.calls]

\* _risk_check: the three checks in source order
risk_check(signal, p, connOk, acctOut) ==
  LET max_pos == config.futures_max_position
  IN IF signal.volume > max_pos
     THEN [checked |-> TRUE, passed |-> FALSE,
           reason |-> MaxPositionReason(signal.volume, max_pos),
           account |-> None, p |-> p, calls |-> {}]
     ELSE LET ga == get_account(p, connOk, acctOut)
              account == ga.account
          IN IF account # None
                /\ Value(account).available < signal.volume * MarginPerLot
             THEN [checked |-> TRUE, passed |-> FALSE,
                   reason |-> FundsReason(Value(account).available),
                   account |-> account, p |-> ga.p, calls |-> ga.calls]
             ELSE IF ~config.futures_auto_trade
             THEN [checked |-> TRUE, passed |-> FALSE,
                   reason |-> AutoTradeReason,
                   account |-> account, p |-> ga.p, calls |-> ga.calls]
             ELSE [checked |-> TRUE, passed |-> TRUE, reason |-> <<>>,
                   account |-> account, p |-> ga.p, calls |-> ga.calls]

\* faulty variant: the protective-order placement is implemented and the gateway
\* rejects it
set_stop_loss_take_profit_failing(signal) ==
  [raised |-> TRUE, exc |-> <<"stop order rejected">>]

\* _set_stop_loss_take_profit: a TODO stub that only logs
set_stop_loss_take_profit(signal) == [raised |-> FALSE, exc |-> <<>>]

\* faulty variant: the wrapper drops the text of the exception it caught
place_order_except_generic(e) == <<"order exception: ">>

\* the except clause of _place_order: raise Exception(f"...: {e}")
place_order_except(e) == <<"order exception: ">> \o e

\* _place_order up to the poll loop: insert_order returns a handle or raises
place_order_insert(signal, ins) ==
  IF ins = "ok"
  THEN [raised |-> FALSE, exc |-> <<>>,
        order |-> [symbol |-> signal.symbol,
                   direction |-> IF signal.direction = "LONG" THEN "BUY"
                                 ELSE "SELL",
                   offset |-> "OPEN", volume |-> signal.volume,
                   limit_price |-> signal.price, status |-> "ALIVE",
                   filled |-> FALSE, trade_price |-> 0,
                   order_id |-> nOrders + 1]]
  ELSE [raised |-> TRUE, exc |-> place_order_except(<<ins>>),
        order |-> NoOrder]

\* faulty variant: the filled order's result is not recorded
place_order_finish_unrecorded(signal, ord) ==
  [raised |-> FALSE, exc |-> <<>>,
   result |-> TradeResult(TRUE, signal.symbol, signal.direction,
                          signal.volume,
                          IF ord.trade_price # 0 THEN ord.trade_price ELSE 0,
                          ToString(ord.order_id), <<"order placed">>),
   appended |-> <<>>, slCalled |-> FALSE]

\* _place_order from the loop exit on: ord is the FINISHED handle
place_order_finish(signal, ord) ==
  LET res == TradeResult(TRUE, signal.symbol, signal.direction, signal.volume,
                         IF ord.trade_price # 0 THEN ord.trade_price ELSE 0,
                         ToString(ord.order_id), <<"order placed">>)
      wantSl == Truthy(signal.stop_loss) \/ Truthy(signal.take_profit)
      sl == IF wantSl THEN set_stop_loss_take_profit(signal)
            ELSE [raised |-> FALSE, exc |-> <<>>]
  IN [raised |-> sl.raised,
      exc |-> IF sl.raised THEN place_order_except(sl.exc) ELSE <<>>,
      result |-> res, appended |-> <<to_dict(res)>>, slCalled |-> wantSl]

\* faulty variant: no try/except around _place_order: the exception escapes
execute_signal_reraise(signal, exc) == Raised(exc)

\* the except clause of execute_signal
execute_signal_except(signal, exc) ==
  TradeResult(FALSE, signal.symbol, signal.direction, signal.volume, 0, "",
              <<"order failed: ">> \o exc)

RiskOf(rc) == [checked |-> rc.checked, passed |-> rc.passed,
               reason |-> rc.reason, account |-> rc.account]

Outcome(npc, t, p, cc, rk, ord, st, calls, err, res) ==
  [pc |-> npc, t |-> t, p |-> p, connChecked |-> cc, risk |-> rk,
   order |-> ord, ordStatus |-> st, calls |-> calls, error |-> err,
   result |-> res]

\* faulty variant: an exception of insert_order is swallowed and the poll loop
\* is entered all the same
execute_signal_approved_swallow(signal, dry_run, ens, rc, ins) ==
  LET calls == ens.calls \cup rc.calls
  IN IF dry_run
     THEN Outcome("done", ens.t, rc.p, ens.ok, RiskOf(rc), NoOrder, "PENDING",
                  calls, <<>>,
                  TradeResult(TRUE, signal.symbol, signal.direction,
                              signal.volume, OrElse(signal.price, 0), "",
                              <<"simulated trade ok">>))
     ELSE LET po == place_order_insert(signal, ins)
          IN IF po.raised
             THEN Outcome("polling", ens.t, rc.p, ens.ok, RiskOf(rc), NoOrder,
                          "FAILED", calls \cup {"insert_order"}, <<>>,
                          NoResult)
             ELSE Outcome("polling", ens.t, rc.p, ens.ok, RiskOf(rc),
                          po.order, "SUBMITTED", calls \cup {"insert_order"},
                          <<>>, NoResult)

\* execute_signal after the risk gate has passed: the dry-run return, or
\* _place_order up to its poll loop inside the try
execute_signal_approved(signal, dry_run, ens, rc, ins) ==
  LET calls == ens.calls \cup rc.calls
  IN IF dry_run
     THEN Outcome("done", ens.t, rc.p, ens.ok, RiskOf(rc), NoOrder, "PENDING",
                  calls, <<>>,
                  TradeResult(TRUE, signal.symbol, signal.direction,
                              signal.volume, OrElse(signal.price, 0), "",
                              <<"simulated trade ok">>))
     ELSE LET po == place_order_insert(signal, ins)
          IN IF po.raised
             THEN Outcome("done", ens.t, rc.p, ens.ok, RiskOf(rc), NoOrder,
                          "FAILED", calls \cup {"insert_order"}, <<ins>>,
                          execute_signal_except(signal, po.exc))
             ELSE Outcome("polling", ens.t, rc.p, ens.ok, RiskOf(rc),
                          po.order, "SUBMITTED", calls \cup {"insert_order"},
                          <<>>, NoResult)

\* faulty variant: the verdict of the risk gate is computed but not consulted
execute_signal_checked_unguarded(signal, dry_run, ens, connOk, acctOut, ins) ==
  execute_signal_approved(signal, dry_run, ens,
                          risk_check(signal, ens.p, connOk, acctOut), ins)

\* execute_signal after the connection check: the risk gate
execute_signal_checked(signal, dry_run, ens, connOk, acctOut, ins) ==
  LET rc == risk_check(signal, ens.p, connOk, acctOut)
  IN IF ~rc.passed
     THEN Outcome("done", ens.t, rc.p, ens.ok, RiskOf(rc), NoOrder, "NONE",
                  ens.calls \cup rc.calls, <<>>,
                  TradeResult(FALSE, signal.symbol, signal.direction,
                              signal.volume, 0, "",
                              <<"risk check failed: ">> \o rc.reason))
     ELSE execute_signal_approved(signal, dry_run, ens, rc, ins)

\* execute_signal from entry to its return or to the poll loop of _place_order
execute_signal(signal, dry_run, connOk, acctOut, ins) ==
  LET ens == connection_check(dry_run, connOk)
  IN IF ~dry_run /\ ~ens.ok
     THEN Outcome("done", ens.t, ens.p, FALSE, NoRisk, NoOrder, "NONE",
                  ens.calls, <<>>,
                  TradeResult(FALSE, signal.symbol, signal.direction,
                              signal.volume, 0, "",
                              <<"trading interface not connected">>))
     ELSE execute_signal_checked(signal, dry_run, ens, connOk, acctOut, ins)

\* faulty variant: the no-trade test looks at the advice only
IsWait_advice_only(analysis) == analysis.operation_advice = "observe"

\* execute_analysis: the no-trade test, and the signal built otherwise
IsWait(analysis) ==
  analysis.direction = "WAIT" \/ analysis.operation_advice = "observe"

signal_of_analysis(analysis) ==
  [symbol |-> analysis.symbol,
   direction |-> IF analysis.direction = "LONG" THEN "LONG" ELSE "SHORT",
   volume |-> IF analysis.position_size # 0 THEN analysis.position_size ELSE 1,
   price |-> IF analysis.entry_price > 0 THEN Some(analysis.entry_price)
             ELSE None,
   stop_loss |-> Some(analysis.stop_loss),
   take_profit |-> Some(analysis.take_profit)]

execute_analysis(analysis, dry_run, connOk, acctOut, ins) ==
  IF IsWait(analysis)
  THEN Outcome("done", t_connected, p_connected, FALSE, NoRisk, NoOrder,
               "NONE", {}, <<>>,
               TradeResult(TRUE, analysis.symbol, "WAIT", 0, 0, "",
                           <<"advise wait: ", "analysis_summary[:100]">>))
  ELSE execute_signal(signal_of_analysis(analysis), dry_run, connOk, acctOut,
                      ins)

\* the selection loop of close_position: indexes of the matching positions
Matching(positions, symbol, direction) ==
  {i \in 1..Len(positions) :
     /\ positions[i].symbol = symbol
     /\ (direction = "ALL" \/ positions[i].direction = direction)}

Min(S) == CHOOSE x \in S : \A y \in S : x <= y

\* the except clause of _close_order: raise Exception(f"...: {e}")
close_order_except(e) == <<"close exception: ">> \o e

\* the except clause of close_position
close_position_except(symbol, close_volume, exc) ==
  TradeResult(FALSE, symbol, "CLOSE", close_volume, 0, "",
              <<"close failed: ">> \o exc)

\* faulty variant: the close order is placed on the side of the position
close_order_insert_same_side(symbol, pos_direction, volume, ins) ==
  IF ins = "ok"
  THEN [raised |-> FALSE, exc |-> <<>>,
        order |-> [symbol |-> symbol,
                   direction |-> IF pos_direction = "LONG" THEN "BUY"
                                 ELSE "SELL",
                   offset |-> "CLOSE", volume |-> volume,
                   limit_price |-> None, status |-> "ALIVE",
                   filled |-> FALSE, trade_price |-> 0,
                   order_id |-> nOrders + 1]]
  ELSE [raised |-> TRUE, exc |-> close_order_except(<<ins>>),
        order |-> NoOrder]

\* _close_order up to the poll loop
close_order_insert(symbol, pos_direction, volume, ins) ==
  IF ins = "ok"
  THEN [raised |-> FALSE, exc |-> <<>>,
        order |-> [symbol |-> symbol,
                   direction |-> IF pos_direction = "LONG" THEN "SELL"
                                 ELSE "BUY",
                   offset |-> "CLOSE", volume |-> volume,
                   limit_price |-> None, status |-> "ALIVE",
                   filled |-> FALSE, trade_price |-> 0,
                   order_id |-> nOrders + 1]]
  ELSE [raised |-> TRUE, exc |-> close_order_except(<<ins>>),
        order |-> NoOrder]

\* _close_order from the loop exit on
close_order_finish(symbol, ord) ==
  TradeResult(TRUE, symbol, "CLOSE", ord.volume,
              IF ord.trade_price # 0 THEN ord.trade_price ELSE 0,
              ToString(ord.order_id), <<"position closed">>)

\* close_position from entry to its return or to the poll loop of _close_order
close_position(symbol, direction, volume, dry_run, connOk, holdOut, ins) ==
  LET ens == connection_check(dry_run, connOk)
  IN IF ~dry_run /\ ~ens.ok
     THEN Outcome("done", ens.t, ens.p, FALSE, NoRisk, NoOrder, "NONE",
                  ens.calls, <<>>,
                  TradeResult(FALSE, symbol, "CLOSE", volume, 0, "",
                              <<"trading interface not connected">>))
     ELSE
     LET gp == get_positions(ens.p, connOk, holdOut)
         calls == ens.calls \cup gp.calls
         m == Matching(gp.positions, symbol, direction)
     IN IF m = {}
        THEN Outcome("done", ens.t, gp.p, ens.ok, NoRisk, NoOrder, "NONE",
                     calls, <<>>,
                     TradeResult(FALSE, symbol, "CLOSE", 0, 0, "",
                                 <<"no matching position">>))
        ELSE
        LET target_pos == gp.positions[Min(m)]
            close_volume == IF volume > 0 THEN volume ELSE target_pos.volume
        IN IF dry_run
           THEN Outcome("done", ens.t, gp.p, ens.ok, NoRisk, NoOrder,
                        "PENDING", calls, <<>>,
                        TradeResult(TRUE, symbol, "CLOSE", close_volume, 0, "",
                                    <<"simulated close ok">>))
           ELSE
           LET co == close_order_insert(symbol, target_pos.direction,
                                        close_volume, ins)
           IN IF co.raised
              THEN Outcome("done", ens.t, gp.p, ens.ok, NoRisk, NoOrder,
                           "FAILED", calls \cup {"insert_order"}, <<ins>>,
                           close_position_except(symbol, close_volume, co.exc))
              ELSE Outcome("polling", ens.t, gp.p, ens.ok, NoRisk, co.order,
                           "SUBMITTED", calls \cup {"insert_order"}, <<>>,
                           NoResult)

\* ------------------------------------------------------- FuturesAnalyzer
\* A response text is the sequence of its whitespace-separated tokens.  JSON
\* string literals are written with single quotes; kanduo, zuoduo, mairu,
\* shangzhang, duotou and kankong, zuokong, maichu, xiadie, kongtou stand for
\* the five Chinese words of each lexicon, observe for the advice to wait,
\* medium/low for the confidence levels, ~~~ for the code fence of three
\* backquotes.
KeyTokens == {"'sentiment_score':", "'operation_advice':", "'dashboard':",
              "'trade_plan':", "'risk_assessment':", "'direction':",
              "'position_size':", "'entry_price':"}
NumberTokens == {"80", "2", "0"}
StringTokens == {"'LONG'", "'SHORT'", "'HOLD'", "'WAIT'", "'high'", "'2'",
                 "'observe'", "'zuoduo'"}
ScalarTokens == NumberTokens \cup StringTokens \cup {"null", "[]"}

\* the key named by a key token
KeyName(tok) ==
  CASE tok = "'sentiment_score':" -> "sentiment_score"
    [] tok = "'operation_advice':" -> "operation_advice"
    [] tok = "'dashboard':" -> "dashboard"
    [] tok = "'trade_plan':" -> "trade_plan"
    [] tok = "'risk_assessment':" -> "risk_assessment"
    [] tok = "'direction':" -> "direction"
    [] tok = "'position_size':" -> "position_size"
    [] tok = "'entry_price':" -> "entry_price"

\* the Python str denoted by a JSON string literal
StringOf(tok) ==
  CASE tok = "'LONG'" -> "LONG"
    [] tok = "'SHORT'" -> "SHORT"
    [] tok = "'HOLD'" -> "HOLD"
    [] tok = "'WAIT'" -> "WAIT"
    [] tok = "'high'" -> "high"
    [] tok = "'2'" -> "2"
    [] tok = "'observe'" -> "observe"
    [] tok = "'zuoduo'" -> "zuoduo"

\* a Python value made by json.loads: t is its type; v is the str itself, the
\* digits of an int, or the JSON text of None, [] and a dict; m holds the
\* (key, value) pairs of a dict in text order
PyValue(t, v, m) == [t |-> t, v |-> v, m |-> m]
PyNone == PyValue("NoneType", "null", <<>>)
PyInt(digits) == PyValue("int", digits, <<>>)
PyStr(s) == PyValue("str", s, <<>>)
PyDict(m) == PyValue("dict", "{}", m)

Scalar(tok) ==
  IF tok \in NumberTokens THEN PyInt(tok)
  ELSE IF tok \in StringTokens THEN PyStr(StringOf(tok))
  ELSE IF tok = "[]" THEN PyValue("list", "[]", <<>>)
  ELSE PyNone

\* [ok, val, next]: the value that starts at token i and the index after it
JsonBad == [ok |-> FALSE, val |-> PyNone, next |-> 0]

RECURSIVE json_value(_, _)
RECURSIVE json_members(_, _, _)

json_value(toks, i) ==
  IF i > Len(toks) THEN JsonBad
  ELSE IF toks[i] \in ScalarTokens
  THEN [ok |-> TRUE, val |-> Scalar(toks[i]), next |-> i + 1]
  ELSE IF toks[i] = "{"
  THEN IF i + 1 <= Len(toks) /\ toks[i + 1] = "}"
       THEN [ok |-> TRUE, val |-> PyDict(<<>>), next |-> i + 2]
       ELSE json_members(toks, i + 1, <<>>)
  ELSE JsonBad

\* the members of an object from token i on, acc being the pairs read so far
json_members(toks, i, acc) ==
  IF i > Len(toks) \/ toks[i] \notin KeyTokens THEN JsonBad
  ELSE LET v == json_value(toks, i + 1)
           pairs == Append(acc, <<KeyName(toks[i]), v.val>>)
       IN IF ~v.ok \/ v.next > Len(toks) THEN JsonBad
          ELSE IF toks[v.next] = "}"
          THEN [ok |-> TRUE, val |-> PyDict(pairs), next |-> v.next + 1]
          ELSE IF toks[v.next] = ","
          THEN json_members(toks, v.next + 1, pairs)
          ELSE JsonBad

\* json.loads: the whole string must be one value, else JSONDecodeError
json_loads(toks) ==
  LET r == json_value(toks, 1)
  IN IF r.ok /\ r.next = Len(toks) + 1
     THEN [raised |-> FALSE, data |-> r.val]
     ELSE [raised |-> TRUE, data |-> PyNone]

\* d.get(key, default): AttributeError unless d is a dict; of a repeated key
\* the last value counts
dict_get(d, key, default) ==
  IF d.t # "dict" THEN [raised |-> TRUE, exc |-> "AttributeError",
                        val |-> PyNone]
  ELSE LET hits == {i \in 1..Len(d.m) : d.m[i][1] = key}
       IN [raised |-> FALSE, exc |-> "",
           val |-> IF hits = {} THEN default
                   ELSE d.m[CHOOSE i \in hits : \A j \in hits : j <= i][2]]

NumberOf(digits) ==
  CASE digits = "80" -> 80
    [] digits = "50" -> 50
    [] digits = "2" -> 2
    [] digits = "1" -> 1
    [] digits = "0" -> 0

\* int(x) and float(x) on the values above
to_number(x) ==
  IF x.t = "int" THEN [raised |-> FALSE, exc |-> "", n |-> NumberOf(x.v)]
  ELSE IF x.t = "str"
  THEN IF x.v \in NumberTokens
       THEN [raised |-> FALSE, exc |-> "", n |-> NumberOf(x.v)]
       ELSE [raised |-> TRUE, exc |-> "ValueError", n |-> 0]
  ELSE [raised |-> TRUE, exc |-> "TypeError", n |-> 0]

\* FuturesAnalysisResult; stop_loss and take_profit are read like
\* entry_price and are left out, as are the free-text fields
AnalysisResult(ok, score, advice, conf, dir, entry, size, rl, kp, err) ==
  [success |-> ok, sentiment_score |-> score, operation_advice |-> advice,
   confidence_level |-> conf, direction |-> dir, entry_price |-> entry,
   position_size |-> size, risk_level |-> rl, key_points |-> kp,
   error_message |-> err]

NoAnalysis == AnalysisResult(FALSE, 0, "", "", "", 0, 0, "", "", "none")

\* text.lower() on one token
Lower(tok) ==
  CASE tok = "LONG" -> "long"
    [] tok = "SHORT" -> "short"
    [] tok = "Bullish" -> "bullish"
    [] tok = "'LONG'" -> "'long'"
    [] tok = "'SHORT'" -> "'short'"
    [] tok = "'HOLD'" -> "'hold'"
    [] tok = "'WAIT'" -> "'wait'"
    [] OTHER -> tok

positive == {"kanduo", "zuoduo", "mairu", "shangzhang", "duotou", "bullish",
             "long"}
negative == {"kankong", "zuokong", "maichu", "xiadie", "kongtou", "bearish",
             "short"}

\* "w in tok": the lexicon words that are substrings of a token
WordsIn(tok) ==
  CASE tok \in positive \cup negative -> {tok}
    [] tok = "'long'" -> {"long"}
    [] tok = "'short'" -> {"short"}
    [] tok = "'zuoduo'" -> {"zuoduo"}
    [] tok = "kanduotou" -> {"kanduo", "duotou"}
    [] tok = "belong" -> {"long"}
    [] OTHER -> {}

\* sum(1 for w in lexicon if w in text_lower): each word counts once
word_count(lexicon, text) ==
  Cardinality({w \in lexicon :
                 \E i \in 1..Len(text) : w \in WordsIn(Lower(text[i]))})

FallbackKeyPoints == "JSON parse failed, for reference only"

\* faulty variant: the margin of one between the two counts is dropped
parse_text_response_no_margin(text) ==
  LET pos_count == word_count(positive, text)
      neg_count == word_count(negative, text)
      pick == IF pos_count > neg_count THEN <<70, "zuoduo", "LONG">>
              ELSE IF neg_count > pos_count THEN <<30, "zuokong", "SHORT">>
              ELSE <<50, "observe", "WAIT">>
  IN AnalysisResult(TRUE, pick[1], pick[2], "low", pick[3], 0, 1, "medium",
                    FallbackKeyPoints, "")

\* _parse_text_response: the keyword fallback
parse_text_response(text) ==
  LET pos_count == word_count(positive, text)
      neg_count == word_count(negative, text)
      pick == IF pos_count > neg_count + 1 THEN <<70, "zuoduo", "LONG">>
              ELSE IF neg_count > pos_count + 1
              THEN <<30, "zuokong", "SHORT">>
              ELSE <<50, "observe", "WAIT">>
  IN AnalysisResult(TRUE, pick[1], pick[2], "low", pick[3], 0, 1, "medium",
                    FallbackKeyPoints, "")

\* the cleaning of the response: with a json fence both fences go, else the
\* plain fence goes
clean(text) ==
  IF \E i \in 1..Len(text) : text[i] = "~~~json"
  THEN SelectSeq(text, LAMBDA tok : tok \notin {"~~~json", "~~~"})
  ELSE SelectSeq(text, LAMBDA tok : tok # "~~~")

\* str.find and str.rfind of a brace, 1-based, 0 when absent
find(text, tok) ==
  LET at == {i \in 1..Len(text) : text[i] = tok}
  IN IF at = {} THEN 0 ELSE CHOOSE i \in at : \A j \in at : i <= j
rfind(text, tok) ==
  LET at == {i \in 1..Len(text) : text[i] = tok}
  IN IF at = {} THEN 0 ELSE CHOOSE i \in at : \A j \in at : j <= i

\* the field extraction of _parse_response on the loaded data: the first
\* failing conversion or .get raises
extract(data) ==
  LET dashboard == dict_get(data, "dashboard", PyDict(<<>>)).val
      tp == dict_get(dashboard, "trade_plan", PyDict(<<>>))
      trade_plan == tp.val
      score == to_number(dict_get(data, "sentiment_score", PyInt("50")).val)
      advice == dict_get(data, "operation_advice", PyStr("observe")).val
      direction == dict_get(trade_plan, "direction", PyStr("WAIT"))
      entry == to_number(dict_get(trade_plan, "entry_price", PyInt("0")).val)
      size == to_number(dict_get(trade_plan, "position_size", PyInt("1")).val)
      ra == dict_get(dashboard, "risk_assessment", PyDict(<<>>)).val
      risk_level == dict_get(ra, "risk_level", PyStr("medium"))
      failed == <<tp, score, direction, entry, size, risk_level>>
      first == CHOOSE i \in 1..Len(failed) :
                 /\ failed[i].raised
                 /\ \A j \in 1..(i - 1) : ~failed[j].raised
  IN IF \E i \in 1..Len(failed) : failed[i].raised
     THEN [raised |-> TRUE, exc |-> failed[first].exc, result |-> NoAnalysis]
     ELSE [raised |-> FALSE, exc |-> "",
           result |-> AnalysisResult(
                        TRUE, score.n, advice.v, "medium", direction.val.v,
                        entry.n, size.n, risk_level.val.v, "", "")]

\* _parse_response: only JSONDecodeError is caught there
parse_response(response_text) ==
  LET cleaned == clean(response_text)
      start == find(cleaned, "{")
      end == rfind(cleaned, "}")
  IN IF start > 0 /\ end > start
     THEN LET loaded == json_loads(SubSeq(cleaned, start, end))
          IN IF loaded.raised
             THEN [raised |-> FALSE, exc |-> "",
                   result |-> parse_text_response(response_text)]
             ELSE extract(loaded.data)
     ELSE [raised |-> FALSE, exc |-> "",
           result |-> parse_text_response(response_text)]

\* the result analyze returns from its except clause
analyze_except(exc) ==
  AnalysisResult(FALSE, 50, "observe", "low", "", 0, 1, "medium", "", exc)

\* analyze: available is is_available(), api what _call_api_with_retry does
analyze(available, api) ==
  IF ~available
  THEN AnalysisResult(FALSE, 50, "observe", "low", "WAIT", 0, 1, "medium", "",
                      "AI API not configured")
  ELSE IF api.raised THEN analyze_except("api error")
  ELSE LET parsed == parse_response(api.text)
       IN IF parsed.raised THEN analyze_except(parsed.exc)
          ELSE parsed.result

\* ------------------------------------------- FuturesDataProvider indicators
\* Prices are whole numbers; a quotient the code forms in floating point is
\* kept as the exact fraction num/den (den > 0).  A kline is its close; the
\* rounded copies of the numbers in the returned dicts are left out.
Rat(num, den) == [num |-> num, den |-> den]
Zero == Rat(0, 1)
Less(a, b) == a.num * b.den < b.num * a.den

RECURSIVE SumSeq(_)
SumSeq(xs) == IF xs = <<>> THEN 0 ELSE Head(xs) + SumSeq(Tail(xs))

\* closes[-n:]
LastN(closes, n) ==
  IF Len(closes) <= n THEN closes
  ELSE SubSeq(closes, Len(closes) - n + 1, Len(closes))

\* calculate_ma
calculate_ma(klines) ==
  IF Len(klines) < 20
  THEN [ma5 |-> Zero, ma10 |-> Zero, ma20 |-> Zero]
  ELSE [ma5 |-> Rat(SumSeq(LastN(klines, 5)), 5),
        ma10 |-> Rat(SumSeq(LastN(klines, 10)), 10),
        ma20 |-> Rat(SumSeq(LastN(klines, 20)), 20)]

NoTrend == [status |-> "", alignment |-> "", signal |-> ""]

\* (last_close - ma5) / ma5 * 100 if ma5 > 0 else 0
bias_of(last_close, ma5) ==
  IF Less(Zero, ma5)
  THEN Rat((last_close * ma5.den - ma5.num) * 100, ma5.num)
  ELSE Zero

\* faulty variant: the buy band reaches up to the hold band
analyze_trend_band_buys(klines, last_price, ma) ==
  IF klines = <<>> \/ ma = None
  THEN [status |-> "unknown", alignment |-> "", signal |-> "unknown"]
  ELSE LET last_close == IF last_price # 0 THEN last_price
                         ELSE klines[Len(klines)]
           ma5 == Value(ma).ma5
           ma10 == Value(ma).ma10
           ma20 == Value(ma).ma20
           trend == IF Less(ma10, ma5) /\ Less(ma20, ma10) THEN "up"
                    ELSE IF Less(ma5, ma10) /\ Less(ma10, ma20) THEN "down"
                    ELSE "sideways"
           bias_ma5 == bias_of(last_close, ma5)
       IN [status |-> trend,
           alignment |-> IF trend = "up" THEN "bullish"
                         ELSE IF trend = "down" THEN "bearish" ELSE "tangled",
           signal |-> IF trend = "up" /\ Less(bias_ma5, Rat(5, 1)) THEN "buy"
                      ELSE IF trend = "up" /\ ~Less(bias_ma5, Rat(5, 1))
                      THEN "hold"
                      ELSE IF trend = "down" THEN "sell"
                      ELSE "wait"]

\* _analyze_trend: last_price is quote.last_price, ma the dict of
\* calculate_ma, None when it is empty
analyze_trend(klines, last_price, ma) ==
  IF klines = <<>> \/ ma = None
  THEN [status |-> "unknown", alignment |-> "", signal |-> "unknown"]
  ELSE LET last_close == IF last_price # 0 THEN last_price
                         ELSE klines[Len(klines)]
           ma5 == Value(ma).ma5
           ma10 == Value(ma).ma10
           ma20 == Value(ma).ma20
           trend == IF Less(ma10, ma5) /\ Less(ma20, ma10) THEN "up"
                    ELSE IF Less(ma5, ma10) /\ Less(ma10, ma20) THEN "down"
                    ELSE "sideways"
           bias_ma5 == bias_of(last_close, ma5)
       IN [status |-> trend,
           alignment |-> IF trend = "up" THEN "bullish"
                         ELSE IF trend = "down" THEN "bearish" ELSE "tangled",
           signal |-> IF trend = "up" /\ Less(bias_ma5, Rat(3, 1)) THEN "buy"
                      ELSE IF trend = "up" /\ ~Less(bias_ma5, Rat(5, 1))
                      THEN "hold"
                      ELSE IF trend = "down" THEN "sell"
                      ELSE "wait"]

NoContext == [op |-> "none", error |-> FALSE, klines |-> <<>>,
              last_price |-> 0, ma |-> None, trend |-> NoTrend]

\* get_analysis_context, its quote, klines, ma and trend: quoteOut and
\* klinesOut are what the gateway queries yield once connected (None, <<>>
\* when they raise)
get_analysis_context(p, connOk, quoteOut, klinesOut) ==
  LET e == provider_ensure_connection(p, connOk)
      quote == IF e.ok THEN quoteOut ELSE None
      klines == klinesOut
      ma_data == IF klines # <<>> THEN Some(calculate_ma(klines)) ELSE None
  IN IF quote = None
     THEN [p |-> e.p,
           context |-> [NoContext EXCEPT !.op = "get_analysis_context",
                                         !.error = TRUE]]
     ELSE [p |-> e.p,
           context |-> [op |-> "get_analysis_context", error |-> FALSE,
                        klines |-> klines, last_price |-> Value(quote),
                        ma |-> ma_data,
                        trend |-> analyze_trend(klines, Value(quote),
                                                ma_data)]]

\* the kline series: up to MaxOldBars bars at one close, then up to
\* MaxMidBars at a second, then up to MaxNewBars at a third
Closes == {90, 100, 110}
Bars(close, n) == [i \in 1..n |-> close]
KlineSeries ==
  {Bars(a, i) \o Bars(b, j) \o Bars(c, k) :
     a \in Closes, b \in Closes, c \in Closes,
     i \in 0..MaxOldBars, j \in 0..MaxMidBars, k \in 0..MaxNewBars}
\* quote.last_price; 0 when the gateway has none
LastPrices == {0, 102, 103, 104, 105}
QuoteOutcomes == {None} \cup {Some(q) : q \in LastPrices}

\* ------------------------------------------------------ the state machine
\* the model's answers: every text of up to MaxTokens tokens over Alphabet,
\* and longer texts of the shapes _parse_response distinguishes
Alphabet == {"{", "}", "~~~json", "'sentiment_score':", "'high'", "80",
             "bullish", "LONG", "kanduotou", "bearish", "SHORT"}
TextsUpTo(n) == UNION {[1..k -> Alphabet] : k \in 0..n}

PlanOpen == <<"{", "'dashboard':", "{", "'trade_plan':", "{">>
PlanClose == <<"}", "}", "}">>
LongPlan == PlanOpen \o <<"'direction':", "'LONG'", ",", "'position_size':",
                          "2">> \o PlanClose
LongTexts ==
  {LongPlan,
   <<"~~~json">> \o LongPlan \o <<"~~~">>,
   <<"~~~">> \o LongPlan \o <<"~~~">>,
   <<"mairu">> \o LongPlan \o <<"xiadie">>,
   PlanOpen \o <<"'direction':", "'LONG'">>,
   PlanOpen \o <<"'direction':", "'LONG'", "}", "}">> \o <<"SHORT", "bearish">>,
   PlanOpen \o <<"'direction':", "'HOLD'">> \o PlanClose,
   PlanOpen \o <<"'direction':", "'SHORT'", ",", "'entry_price':", "80">>
     \o PlanClose,
   PlanOpen \o <<"'direction':", "null">> \o PlanClose,
   PlanOpen \o <<"'position_size':", "'high'">> \o PlanClose,
   PlanOpen \o <<"'position_size':", "'2'", ",", "'position_size':", "0">>
     \o PlanClose,
   PlanOpen \o <<"'entry_price':", "[]">> \o PlanClose,
   <<"{", "'sentiment_score':", "'high'", "}">>,
   <<"{", "'sentiment_score':", "null", "}">>,
   <<"{", "'sentiment_score':", "80", ",", "'operation_advice':", "'zuoduo'",
     "}">>,
   <<"{", "'operation_advice':", "'observe'", "}">>,
   <<"{", "'dashboard':", "[]", "}">>,
   <<"{", "'dashboard':", "null", "}">>,
   <<"{", "'dashboard':", "{", "'trade_plan':", "'WAIT'", "}", "}">>,
   <<"{", "'dashboard':", "{", "'risk_assessment':", "80", "}", "}">>,
   <<"{", "'dashboard':", "{", "}", ",", "}">>,
   <<"kanduo", "zuoduo", "mairu", "shangzhang", "duotou", "bullish", "long">>,
   <<"kankong", "zuokong", "maichu", "xiadie", "kongtou", "bearish", "short">>,
   <<"Bullish", "mairu", "LONG", "belong", "kongtou">>,
   <<"zuokong", "maichu", "xiadie", "shangzhang", "long">>,
   <<"zuokong", "maichu", "xiadie", "shangzhang">>,
   <<"kanduo", "zuoduo", "mairu", "short", "xiadie">>}

Responses == TextsUpTo(MaxTokens) \cup LongTexts

NoResponse == [called |-> FALSE, raised |-> FALSE, text |-> <<>>]
ApiOutcomes == {[called |-> TRUE, raised |-> TRUE, text |-> <<>>]}
               \cup {[called |-> TRUE, raised |-> FALSE, text |-> t] :
                      t \in Responses}

CallOf(name, dry_run, signal, a_direction, a_advice) ==
  [name |-> name, dry_run |-> dry_run, symbol |-> signal.symbol,
   direction |-> signal.direction, volume |-> signal.volume,
   price |-> signal.price, stop_loss |-> signal.stop_loss,
   take_profit |-> signal.take_profit,
   a_direction |-> a_direction, a_advice |-> a_advice]

SignalOf(c) ==
  [symbol |-> c.symbol, direction |-> c.direction, volume |-> c.volume,
   price |-> c.price, stop_loss |-> c.stop_loss, take_profit |-> c.take_profit]

InsertOutcomes == {"ok"} \cup GatewayErrors
PollOutcomes == {"alive", "filled", "unfilled"} \cup GatewayErrors

\* The gateway outcomes worth drawing: an outcome that the call cannot
\* observe is drawn from a singleton.
CanAttemptLogin == config.tq_auth /\ (config.use_sim \/ config.tq_real)
ConnectChoices == IF p_connected \/ ~CanAttemptLogin THEN {FALSE} ELSE BOOLEAN
InsertChoices(volume, dry_run) ==
  IF dry_run \/ volume > config.futures_max_position
     \/ ~config.futures_auto_trade
  THEN {"ok"} ELSE InsertOutcomes

Init ==
  /\ config \in Configs
  /\ t_connected = FALSE
  /\ p_connected = FALSE
  /\ trade_history = <<>>
  /\ nOrders = 0
  /\ pc = "idle"
  /\ call = NoCall
  /\ connChecked = FALSE
  /\ risk = NoRisk
  /\ order = NoOrder
  /\ ordStatus = "NONE"
  /\ gwCalls = {}
  /\ slCalled = FALSE
  /\ gwEnv = NoEnv
  /\ result = NoResult
  /\ response = NoResponse
  /\ analyzed = NoAnalysis
  /\ context = NoContext

\* the first part of an operation, applied to the state
Begin(c, acct, held, o) ==
  /\ call' = c
  /\ pc' = o.pc
  /\ t_connected' = o.t
  /\ p_connected' = o.p
  /\ connChecked' = o.connChecked
  /\ risk' = o.risk
  /\ order' = o.order
  /\ ordStatus' = o.ordStatus
  /\ gwCalls' = o.calls
  /\ gwEnv' = [account |-> acct, error |-> o.error, holdings |-> held]
  /\ result' = o.result
  /\ nOrders' = IF o.pc = "polling" THEN nOrders + 1 ELSE nOrders
  /\ slCalled' = FALSE
  /\ UNCHANGED <<config, trade_history>>
  /\ UNCHANGED <<analyzerVars, indicatorVars>>

\* ----------------------------------------------------------------- actions
\* FuturesTrader.connect(), called by the user (or by __enter__)
Connect ==
  /\ pc = "idle"
  /\ \E connOk \in ConnectChoices :
       LET r == connect(t_connected, p_connected, connOk)
       IN /\ t_connected' = r.t
          /\ p_connected' = r.p
  /\ UNCHANGED <<config, trade_history, nOrders, pc, call, connChecked, risk,
                 order, ordStatus, gwCalls, slCalled, gwEnv, result>>
  /\ UNCHANGED <<analyzerVars, indicatorVars>>

\* FuturesTrader.disconnect()
Disconnect ==
  /\ pc = "idle"
  /\ t_connected' = FALSE
  /\ p_connected' = FALSE
  /\ UNCHANGED <<config, trade_history, nOrders, pc, call, connChecked, risk,
                 order, ordStatus, gwCalls, slCalled, gwEnv, result>>
  /\ UNCHANGED <<analyzerVars, indicatorVars>>

ExecuteSignalUpTo(cap) ==
  /\ pc = "idle"
  /\ \E signal \in TradeSignals, dry_run \in BOOLEAN :
     \E connOk \in ConnectChoices, acctOut \in AccountOutcomes,
        ins \in InsertChoices(signal.volume, dry_run) :
       /\ dry_run \/ nOrders < cap
       /\ Begin(CallOf("execute_signal", dry_run, signal, "", ""), acctOut,
                None, execute_signal(signal, dry_run, connOk, acctOut, ins))

ExecuteSignal == ExecuteSignalUpTo(MaxOrders)

ExecuteAnalysisUpTo(cap) ==
  /\ pc = "idle"
  /\ \E analysis \in Analyses, dry_run \in BOOLEAN :
     LET signal == signal_of_analysis(analysis)
         wait == IsWait(analysis)
     IN \E connOk \in (IF wait THEN {FALSE} ELSE ConnectChoices),
           acctOut \in (IF wait THEN {None} ELSE AccountOutcomes),
           ins \in (IF wait THEN {"ok"}
                    ELSE InsertChoices(signal.volume, dry_run)) :
          /\ dry_run \/ wait \/ nOrders < cap
          /\ Begin(CallOf("execute_analysis", dry_run,
                          IF wait
                          THEN [signal EXCEPT !.direction = "WAIT",
                                              !.volume = 0]
                          ELSE signal,
                          analysis.direction, analysis.operation_advice),
                   acctOut, None,
                   execute_analysis(analysis, dry_run, connOk, acctOut, ins))

ExecuteAnalysis == ExecuteAnalysisUpTo(MaxOrders)

ClosePositionUpTo(cap) ==
  /\ pc = "idle"
  /\ \E symbol \in PositionSymbols, direction \in {"ALL", "LONG", "SHORT"},
        volume \in Volumes, dry_run \in BOOLEAN :
     \E connOk \in ConnectChoices, holdOut \in HoldingOutcomes,
        ins \in (IF dry_run THEN {"ok"} ELSE InsertOutcomes) :
       LET o == close_position(symbol, direction, volume, dry_run, connOk,
                               holdOut, ins)
       IN /\ dry_run \/ nOrders < cap
          /\ Begin([NoCall EXCEPT !.name = "close_position",
                                  !.dry_run = dry_run, !.symbol = symbol,
                                  !.direction = direction, !.volume = volume],
                   None,
                   IF "get_position" \in o.calls THEN holdOut ELSE None, o)

ClosePosition == ClosePositionUpTo(MaxOrders)

\* one iteration of the poll loop of _place_order; the iteration that sees
\* FINISHED, or in which wait_update raises, runs the handler to its return
WaitUpdatePlace ==
  /\ pc = "polling"
  /\ call.name \in {"execute_signal", "execute_analysis"}
  /\ \E out \in PollOutcomes, tp \in GatewayTradePrices :
       LET signal == SignalOf(call)
       IN /\ gwCalls' = gwCalls \cup {"wait_update"}
          /\ IF out = "alive"
             THEN UNCHANGED <<pc, order, ordStatus, result, trade_history,
                              slCalled, gwEnv>>
             ELSE IF out \in GatewayErrors
             THEN /\ pc' = "done"
                  /\ ordStatus' = "FAILED"
                  /\ gwEnv' = [gwEnv EXCEPT !.error = <<out>>]
                  /\ result' = execute_signal_except(
                                  signal, place_order_except(<<out>>))
                  /\ UNCHANGED <<order, trade_history, slCalled>>
             ELSE LET ord == [order EXCEPT !.status = "FINISHED",
                                           !.filled = (out = "filled"),
                                           !.trade_price = tp]
                      fin == place_order_finish(signal, ord)
                  IN /\ pc' = "done"
                     /\ order' = ord
                     /\ ordStatus' = "FILLED"
                     /\ trade_history' = trade_history \o fin.appended
                     /\ slCalled' = fin.slCalled
                     /\ result' = IF fin.raised
                                  THEN execute_signal_except(signal, fin.exc)
                                  ELSE fin.result
                     /\ UNCHANGED gwEnv
  /\ UNCHANGED <<config, t_connected, p_connected, nOrders, call, connChecked,
                 risk>>
  /\ UNCHANGED <<analyzerVars, indicatorVars>>

\* faulty variant: the poll loop of _close_order gives up when an update
\* leaves the order alive
WaitUpdateClose_giving_up ==
  /\ pc = "polling"
  /\ call.name = "close_position"
  /\ \E out \in PollOutcomes, tp \in GatewayTradePrices :
       /\ gwCalls' = gwCalls \cup {"wait_update"}
       /\ IF out = "alive"
          THEN /\ pc' = "done"
               /\ ordStatus' = "FAILED"
               /\ result' = close_position_except(
                               call.symbol, order.volume,
                               close_order_except(<<"timed out">>))
               /\ UNCHANGED <<order, gwEnv>>
          ELSE IF out \in GatewayErrors
          THEN /\ pc' = "done"
               /\ ordStatus' = "FAILED"
               /\ gwEnv' = [gwEnv EXCEPT !.error = <<out>>]
               /\ result' = close_position_except(
                               call.symbol, order.volume,
                               close_order_except(<<out>>))
               /\ UNCHANGED order
          ELSE LET ord == [order EXCEPT !.status = "FINISHED",
                                        !.filled = (out = "filled"),
                                        !.trade_price = tp]
               IN /\ pc' = "done"
                  /\ order' = ord
                  /\ ordStatus' = "FILLED"
                  /\ result' = close_order_finish(call.symbol, ord)
                  /\ UNCHANGED gwEnv
  /\ UNCHANGED <<config, t_connected, p_connected, nOrders, call, connChecked,
                 risk, trade_history, slCalled>>
  /\ UNCHANGED <<analyzerVars, indicatorVars>>

\* one iteration of the poll loop of _close_order
WaitUpdateClose ==
  /\ pc = "polling"
  /\ call.name = "close_position"
  /\ \E out \in PollOutcomes, tp \in GatewayTradePrices :
       /\ gwCalls' = gwCalls \cup {"wait_update"}
       /\ IF out = "alive"
          THEN UNCHANGED <<pc, order, ordStatus, result, gwEnv>>
          ELSE IF out \in GatewayErrors
          THEN /\ pc' = "done"
               /\ ordStatus' = "FAILED"
               /\ gwEnv' = [gwEnv EXCEPT !.error = <<out>>]
               /\ result' = close_position_except(
                               call.symbol, order.volume,
                               close_order_except(<<out>>))
               /\ UNCHANGED order
          ELSE LET ord == [order EXCEPT !.status = "FINISHED",
                                        !.filled = (out = "filled"),
                                        !.trade_price = tp]
               IN /\ pc' = "done"
                  /\ order' = ord
                  /\ ordStatus' = "FILLED"
                  /\ result' = close_order_finish(call.symbol, ord)
                  /\ UNCHANGED gwEnv
  /\ UNCHANGED <<config, t_connected, p_connected, nOrders, call, connChecked,
                 risk, trade_history, slCalled>>
  /\ UNCHANGED <<analyzerVars, indicatorVars>>

\* the operation has returned: its locals are gone and the trader is ready
\* for the next call
Return ==
  /\ pc = "done"
  /\ pc' = "idle"
  /\ call' = NoCall
  /\ connChecked' = FALSE
  /\ risk' = NoRisk
  /\ order' = NoOrder
  /\ ordStatus' = "NONE"
  /\ gwCalls' = {}
  /\ slCalled' = FALSE
  /\ gwEnv' = NoEnv
  /\ result' = NoResult
  /\ UNCHANGED <<config, t_connected, p_connected, trade_history, nOrders>>
  /\ UNCHANGED <<analyzerVars, indicatorVars>>

\* FuturesAnalyzer.analyze(context): one synchronous call
Analyze ==
  /\ ~response.called
  /\ \E available \in BOOLEAN :
     \E api \in (IF available THEN ApiOutcomes ELSE {NoResponse}) :
       /\ response' = api
       /\ analyzed' = analyze(available, api)
  /\ UNCHANGED <<traderVars, indicatorVars>>

\* the caller has taken the result of analyze()
AnalyzeReturn ==
  /\ response.called
  /\ response' = NoResponse
  /\ analyzed' = NoAnalysis
  /\ UNCHANGED <<traderVars, indicatorVars>>

\* FuturesDataProvider.calculate_ma(klines)
CalculateMa ==
  /\ context.op = "none"
  /\ \E klines \in KlineSeries :
       context' = [NoContext EXCEPT !.op = "calculate_ma", !.klines = klines,
                                    !.ma = Some(calculate_ma(klines))]
  /\ UNCHANGED <<traderVars, analyzerVars>>

\* FuturesDataProvider.get_analysis_context(symbol)
GetAnalysisContext ==
  /\ context.op = "none"
  /\ \E connOk \in ConnectChoices, quoteOut \in QuoteOutcomes,
        klinesOut \in KlineSeries :
       LET r == get_analysis_context(p_connected, connOk, quoteOut,
                                     IF quoteOut = None THEN <<>>
                                     ELSE klinesOut)
       IN /\ (connOk \/ p_connected \/ quoteOut = None)
          /\ p_connected' = r.p
          /\ context' = r.context
  /\ UNCHANGED <<config, t_connected, trade_history, nOrders, pc, call,
                 connChecked, risk, order, ordStatus, gwCalls, slCalled, gwEnv,
                 result, analyzerVars>>

\* the caller has taken the result of the indicator computation
ContextReturn ==
  /\ context.op # "none"
  /\ context' = NoContext
  /\ UNCHANGED <<traderVars, analyzerVars>>

Next ==
  \/ Connect
  \/ Disconnect
  \/ ExecuteSignal
  \/ ExecuteAnalysis
  \/ ClosePosition
  \/ WaitUpdatePlace
  \/ WaitUpdateClose
  \/ Return

Spec == Init /\ [][Next]_vars

\* The same machine under one trading-enabled configuration, with room for
\* more accepted orders: used for the properties of the trade-history log.
InitHistory ==
  /\ Init
  /\ config = [futures_max_position |-> 1, futures_auto_trade |-> TRUE,
               tq_auth |-> TRUE, use_sim |-> TRUE, tq_real |-> FALSE]

NextHistory ==
  \/ Connect
  \/ Disconnect
  \/ ExecuteSignalUpTo(MaxLoggedOrders)
  \/ ExecuteAnalysisUpTo(MaxLoggedOrders)
  \/ ClosePositionUpTo(MaxLoggedOrders)
  \/ WaitUpdatePlace
  \/ WaitUpdateClose
  \/ Return

SpecHistory == InitHistory /\ [][NextHistory]_vars

\* The analyzer on its own: it shares nothing with the trader.
NextAnalyzer == Analyze \/ AnalyzeReturn

SpecAnalyzer == InitHistory /\ [][NextAnalyzer]_vars

\* The indicator computations of the data provider on their own.
NextIndicators == CalculateMa \/ GetAnalysisContext \/ ContextReturn

SpecIndicators == InitHistory /\ [][NextIndicators]_vars

\* The gateway ends the order: the update in which it reports the order
\* FINISHED, or in which wait_update raises.
GatewayEndsOrder == (WaitUpdatePlace \/ WaitUpdateClose) /\ pc' = "done"

\* The machine under one trading-enabled configuration and a gateway that
\* does not leave a submitted order alive for ever: wait_update blocks the
\* only thread until the gateway has news, so what the loop waits for is the
\* gateway's doing, not the scheduler's.
SpecLive == InitHistory /\ [][Next]_vars /\ WF_vars(GatewayEndsOrder)

\* ------------------------------------------------------------- properties
SignalCall ==
  /\ call.name \in {"execute_signal", "execute_analysis"}
  /\ call.direction # "WAIT"

DrySignalDone == pc = "done" /\ call.name = "execute_signal" /\ call.dry_run

\* a dry-run execute_signal runs from idle to its return in one step
DrySignalStep ==
  pc = "idle" /\ call'.name = "execute_signal" /\ call'.dry_run

IsPrefix(s, t) == Len(s) <= Len(t) /\ SubSeq(t, 1, Len(s)) = s

LimitOrZero(price) == IF price = None THEN 0 ELSE Value(price)

\* C1 as stated: a dry-run execute_signal makes no gateway call at all (no
\* connect, no account or position query, no order insertion) and leaves the
\* connection state as it was.
C1_DryRunNoContact ==
  [][DrySignalStep =>
       /\ gwCalls' = {}
       /\ p_connected' = p_connected
       /\ t_connected' = t_connected]_vars

\* C1 amended: a dry-run execute_signal never inserts an order, never polls,
\* never queries positions and never changes the trader's own connection
\* flag, the order count or the history; the only gateway contact is the
\* risk gate's funds check (a provider connect and an account query), made
\* only when the volume is within the max position.
C1_DryRunNoOrder ==
  [][DrySignalStep =>
       /\ pc' = "done"
       /\ gwCalls' \subseteq {"TqApi", "get_account"}
       /\ order' = NoOrder
       /\ ordStatus' \in {"NONE", "PENDING"}
       /\ nOrders' = nOrders
       /\ trade_history' = trade_history
       /\ t_connected' = t_connected
       /\ (p_connected' # p_connected => "TqApi" \in gwCalls')
       /\ (call'.volume > config.futures_max_position =>
             gwCalls' = {} /\ p_connected' = p_connected)]_vars

C1_Witness ==
  /\ DrySignalDone
  /\ gwCalls = {"TqApi", "get_account"}
  /\ p_connected /\ ~t_connected
  /\ result.success

\* C2 as stated: a dry-run execute_signal always returns success=true with
\* the limit price, or 0 for a market order, whatever the volume, the account
\* and the configuration.
C2_DryRunAlwaysSucceeds ==
  DrySignalDone =>
    /\ result.kind = "returned"
    /\ result.success
    /\ result.price = LimitOrZero(call.price)

\* C2 amended: a dry-run execute_signal returns success=true with the limit
\* price (0 for a market order) exactly when the risk gate passes; when the
\* gate rejects (volume over the max position, funds short, auto trade off)
\* it returns success=false with the gate's reason and price 0.
C2_DryRunResult ==
  DrySignalDone =>
    /\ result.kind = "returned"
    /\ risk.checked
    /\ result.success = risk.passed
    /\ result.symbol = call.symbol
    /\ result.direction = call.direction
    /\ result.volume = call.volume
    /\ result.order_id = ""
    /\ (risk.passed => result.price = LimitOrZero(call.price))
    /\ (~risk.passed =>
          /\ result.price = 0
          /\ result.message = <<"risk check failed: ">> \o risk.reason)
    /\ (~config.futures_auto_trade => ~result.success)
    /\ (call.volume > config.futures_max_position => ~result.success)

C2_Witness ==
  /\ DrySignalDone
  /\ result.success
  /\ call.price = Some(100)
  /\ result.price = 100

\* C3: in a non-dry-run execute_signal an order is inserted only after the
\* connection check succeeded and the risk gate passed in that same call; a
\* connectivity failure or a risk rejection submits nothing.
C3_InsertOnlyAfterChecks ==
  SignalCall =>
    /\ (("insert_order" \in gwCalls \/ order # NoOrder \/ pc = "polling") =>
          /\ ~call.dry_run
          /\ connChecked /\ t_connected /\ p_connected
          /\ risk.checked /\ risk.passed)
    /\ ((pc = "done" /\ ~call.dry_run /\ (~connChecked \/ ~risk.passed)) =>
          /\ "insert_order" \notin gwCalls
          /\ order = NoOrder
          /\ ~result.success)

C3_Witness ==
  /\ pc = "polling"
  /\ call.name = "execute_signal"
  /\ "insert_order" \in gwCalls
  /\ connChecked /\ risk.passed

\* C4: with automated trading off the risk gate rejects every signal,
\* whatever its volume and the funds, so execute_signal and execute_analysis
\* never submit an order and nothing is ever logged.
C4_KillSwitch ==
  ~config.futures_auto_trade =>
    /\ (risk.checked => ~risk.passed)
    /\ (SignalCall =>
          /\ "insert_order" \notin gwCalls
          /\ order = NoOrder
          /\ pc # "polling")
    /\ trade_history = <<>>

C4_Witness ==
  /\ ~config.futures_auto_trade
  /\ pc = "done"
  /\ call.name = "execute_signal" /\ ~call.dry_run
  /\ connChecked
  /\ call.volume >= 1
  /\ call.volume <= config.futures_max_position
  /\ risk.account # None
  /\ Value(risk.account).available >= call.volume * MarginPerLot
  /\ risk.reason = AutoTradeReason
  /\ ~result.success

\* C5 as stated: the risk gate passes only if an account snapshot was
\* obtained and its available funds cover volume x 10000, also when the
\* account query fails or returns nothing.
C5_PassNeedsFunds ==
  (risk.checked /\ risk.passed) =>
    /\ risk.account # None
    /\ Value(risk.account).available >= call.volume * MarginPerLot

\* C6: the risk gate checks max position, then funds, then the kill switch,
\* and the first failing check gives the reason: a signal over the max
\* position is rejected with the max-position reason, naming the volume and
\* the maximum, whatever the funds are.
C6_CheckOrder ==
  risk.checked =>
    LET v == call.volume
        m == config.futures_max_position
        short == /\ risk.account # None
                 /\ Value(risk.account).available < v * MarginPerLot
    IN /\ (v > m =>
             /\ ~risk.passed
             /\ risk.reason = <<"over max position (", ToString(v), " > ",
                                ToString(m), ")">>
             /\ "get_account" \notin gwCalls)
       /\ ((v <= m /\ short) =>
             /\ ~risk.passed
             /\ risk.reason = FundsReason(Value(risk.account).available))
       /\ ((v <= m /\ ~short /\ ~config.futures_auto_trade) =>
             ~risk.passed /\ risk.reason = AutoTradeReason)
       /\ (risk.passed => risk.reason = <<>>)

\* over the max position, short of funds and auto trade off, all at once
C6_Witness ==
  /\ risk.checked
  /\ call.volume > config.futures_max_position
  /\ gwEnv.account # None
  /\ Value(gwEnv.account).available < call.volume * MarginPerLot
  /\ ~config.futures_auto_trade
  /\ risk.reason[1] = "over max position ("
  /\ ~result.success /\ pc = "done"

\* C7: no public trader operation raises to its caller: whatever the gateway
\* does, the operation returns a TradeResult, with success=false on a
\* connectivity failure, a risk rejection or a gateway exception.
C7_NoRaise ==
  /\ (pc # "done" => result = NoResult)
  /\ (pc = "done" =>
        /\ result.kind = "returned"
        /\ ((~call.dry_run /\ ~connChecked /\ call.direction # "WAIT") =>
              ~result.success)
        /\ ((risk.checked /\ ~risk.passed) => ~result.success)
        /\ (gwEnv.error # <<>> => ~result.success))

C7_Witness ==
  /\ pc = "done"
  /\ call.name = "execute_signal"
  /\ gwEnv.error # <<>>
  /\ "wait_update" \in gwCalls
  /\ result.kind = "returned" /\ ~result.success

\* C8 as stated: when the gateway raises during submission or polling, the
\* order ends FAILED and the result has success=false with the gateway's
\* exception message verbatim.
C8_MessageVerbatim ==
  (pc = "done" /\ gwEnv.error # <<>>) =>
    /\ ordStatus = "FAILED"
    /\ ~result.success
    /\ result.message = gwEnv.error

\* C8 amended: when the gateway raises during submission or polling, the
\* order ends FAILED and the result has success=false with a message made of
\* the two fixed prefixes of the wrapping handlers followed by the gateway's
\* exception message, unaltered.
C8_MessageWrapped ==
  (pc = "done" /\ gwEnv.error # <<>>) =>
    /\ ordStatus = "FAILED"
    /\ ~result.success
    /\ Len(gwEnv.error) = 1
    /\ gwEnv.error[1] \in GatewayErrors
    /\ result.message =
         (IF call.name = "close_position"
          THEN <<"close failed: ", "close exception: ">>
          ELSE <<"order failed: ", "order exception: ">>) \o gwEnv.error

C8_Witness ==
  /\ pc = "done"
  /\ call.name = "execute_signal"
  /\ gwEnv.error = <<"rejected">>
  /\ "wait_update" \in gwCalls
  /\ ordStatus = "FAILED"

PrimaryFilled ==
  /\ pc = "done"
  /\ SignalCall
  /\ order.status = "FINISHED"
  /\ order.filled

C10_AppendOnly ==
  [][/\ IsPrefix(trade_history, trade_history')
     /\ Len(trade_history') <= Len(trade_history) + 1
     /\ (trade_history' # trade_history =>
           /\ pc = "polling" /\ pc' = "done"
           /\ SignalCall
           /\ ~call.dry_run
           /\ order'.status = "FINISHED"
           /\ gwEnv'.error = <<>>
           /\ result'.success
           /\ trade_history' = Append(trade_history, to_dict(result')))
     /\ ((pc = "polling" /\ pc' = "done" /\ SignalCall /\ order'.filled) =>
           Len(trade_history') = Len(trade_history) + 1)]_vars

\* a second filled order has been logged behind the first
C10_Witness ==
  /\ Len(trade_history) = 2
  /\ pc = "done"
  /\ order.filled
  /\ trade_history[2] = to_dict(result)
  /\ trade_history[1].order_id # trade_history[2].order_id

CloseFilled ==
  /\ pc = "done"
  /\ call.name = "close_position" /\ ~call.dry_run
  /\ order.status = "FINISHED" /\ order.filled
  /\ result.success

\* C11 as stated: the result of a filled close order is appended to the trade
\* history, as a filled open order's result is: after a successful
\* non-dry-run close_position the history ends with that result.
C11_CloseLogged ==
  CloseFilled =>
    /\ trade_history # <<>>
    /\ trade_history[Len(trade_history)] = to_dict(result)

AnalysisCall == call.name = "execute_analysis"

\* an order was built or handed to the gateway in this call
OrderMade ==
  \/ "insert_order" \in gwCalls
  \/ order # NoOrder
  \/ pc = "polling"

\* C13 as stated: execute_analysis submits a BUY/OPEN order only for a LONG
\* decision and a SELL/OPEN order only for a SHORT decision; a decision whose
\* direction is outside {LONG, SHORT, WAIT} never leads to an order.
C13_DirectionMatches ==
  AnalysisCall =>
    /\ (order # NoOrder =>
          /\ order.offset = "OPEN"
          /\ (order.direction = "BUY" => call.a_direction = "LONG")
          /\ (order.direction = "SELL" => call.a_direction = "SHORT"))
    /\ (call.a_direction \notin {"LONG", "SHORT", "WAIT"} => ~OrderMade)

\* C17 as stated: a success=true result of a non-dry-run execute_signal means
\* the order was actually filled, and an order that ended without a fill is
\* never recorded in the trade history.
C17_SuccessMeansFilled ==
  (pc = "done" /\ SignalCall /\ ~call.dry_run) =>
    /\ (result.success => order.status = "FINISHED" /\ order.filled)
    /\ ((order.status = "FINISHED" /\ ~order.filled) =>
          \A i \in 1..Len(trade_history) :
            trade_history[i].order_id # ToString(order.order_id))

\* C18 as stated: every order handed to the gateway for a LONG or SHORT
\* signal, by execute_signal or execute_analysis, has a volume of at least 1.
C18_PositiveVolume ==
  (SignalCall /\ call.direction \in {"LONG", "SHORT"}) =>
    /\ ("insert_order" \in gwCalls => call.volume >= 1)
    /\ (order # NoOrder => order.volume >= 1)

\* execute_analysis on a WAIT decision runs from idle to its return in one
\* step
WaitDecisionStep ==
  pc = "idle" /\ call'.name = "execute_analysis" /\ call'.a_direction = "WAIT"

\* C12: execute_analysis on a decision whose direction is WAIT builds and
\* submits no order, runs neither the connection check nor the risk gate,
\* makes no gateway call, and returns a success=true result with direction
\* WAIT and volume 0, in dry-run and in live mode alike.
C12_WaitNoOp ==
  [][WaitDecisionStep =>
       /\ pc' = "done"
       /\ result'.kind = "returned"
       /\ result'.success
       /\ result'.direction = "WAIT"
       /\ result'.volume = 0
       /\ result'.symbol = call'.symbol
       /\ result'.order_id = ""
       /\ gwCalls' = {}
       /\ ~risk'.checked
       /\ ~connChecked'
       /\ order' = NoOrder
       /\ ordStatus' = "NONE"
       /\ nOrders' = nOrders
       /\ trade_history' = trade_history
       /\ t_connected' = t_connected
       /\ p_connected' = p_connected]_vars

\* a live WAIT decision whose advice alone would not stop the trade
C12_Witness ==
  /\ pc = "done"
  /\ call.name = "execute_analysis" /\ ~call.dry_run
  /\ call.a_direction = "WAIT" /\ call.a_advice = "go long"
  /\ result.success /\ result.direction = "WAIT" /\ result.volume = 0
  /\ config.futures_auto_trade

\* what the gateway holds on a symbol: (pos_long, pos_short)
HeldOn(h, sym) == IF sym = "SHFE.au2506" THEN h.au ELSE h.rb

\* a live close_position with requested volume 0 has passed the connection
\* check and got the positions from the gateway
CloseAllStep ==
  /\ pc = "idle"
  /\ call'.name = "close_position" /\ ~call'.dry_run /\ call'.volume = 0
  /\ connChecked'
  /\ gwEnv'.holdings # None

\* C14: a non-dry-run close_position with requested volume 0, on a symbol
\* whose first matching position has direction d and size n, calls
\* insert_order once, for an order with offset CLOSE, volume n and the
\* direction inverse to d (SELL for LONG, BUY for SHORT); the filter ALL
\* matches a position of either direction, LONG before SHORT; with no
\* matching position nothing is inserted.
C14_CloseAll ==
  [][CloseAllStep =>
       LET h == HeldOn(Value(gwEnv'.holdings), call'.symbol)
           d == IF call'.direction \in {"ALL", "LONG"} /\ h[1] > 0 THEN "LONG"
                ELSE IF call'.direction \in {"ALL", "SHORT"} /\ h[2] > 0
                THEN "SHORT" ELSE "none"
           n == IF d = "LONG" THEN h[1] ELSE h[2]
       IN IF d = "none"
          THEN /\ "insert_order" \notin gwCalls'
               /\ order' = NoOrder
               /\ nOrders' = nOrders
               /\ pc' = "done" /\ ~result'.success
          ELSE /\ "insert_order" \in gwCalls'
               /\ nOrders' <= nOrders + 1
               /\ (pc' = "polling" =>
                     /\ nOrders' = nOrders + 1
                     /\ order'.symbol = call'.symbol
                     /\ order'.offset = "CLOSE"
                     /\ order'.volume = n
                     /\ order'.direction = IF d = "LONG" THEN "SELL" ELSE "BUY"
                     /\ order'.order_id = nOrders')
               /\ (pc' = "done" =>
                     /\ gwEnv'.error # <<>>
                     /\ order' = NoOrder
                     /\ nOrders' = nOrders
                     /\ ~result'.success
                     /\ result'.volume = n)]_vars

\* ALL on a symbol held short only: the whole short position is bought back
C14_Witness ==
  /\ pc = "polling"
  /\ call.name = "close_position" /\ ~call.dry_run
  /\ call.volume = 0 /\ call.direction = "ALL"
  /\ gwEnv.holdings # None
  /\ HeldOn(Value(gwEnv.holdings), call.symbol) = <<0, 1>>
  /\ order.direction = "BUY" /\ order.offset = "CLOSE" /\ order.volume = 1

StatusRank(st) ==
  CASE st = "NONE" -> 0
    [] st = "PENDING" -> 1
    [] st = "SUBMITTED" -> 2
    [] st \in {"FILLED", "FAILED"} -> 3

\* the step in which the finished operation's order is dropped
ReturnStep == pc = "done" /\ pc' = "idle"

\* C15: within an operation the order's status only moves forward along
\* PENDING -> SUBMITTED -> FILLED or FAILED: no step moves it back, FILLED and
\* FAILED are left by no step, and FILLED is entered from SUBMITTED only, by
\* an order that was inserted and that the gateway reported finished.
C15_StatusMonotonic ==
  [][~ReturnStep =>
       /\ StatusRank(ordStatus') >= StatusRank(ordStatus)
       /\ (ordStatus \in {"FILLED", "FAILED"} => ordStatus' = ordStatus)
       /\ (ordStatus' = "FILLED" =>
             /\ ordStatus \in {"SUBMITTED", "FILLED"}
             /\ "insert_order" \in gwCalls'
             /\ order'.status = "FINISHED")
       /\ (ordStatus' = "SUBMITTED" <=> pc' = "polling")
       /\ (ordStatus' = "PENDING" => call'.dry_run /\ order' = NoOrder)]_vars

\* an order that went SUBMITTED, stayed SUBMITTED over an update, then FILLED
C15_Witness ==
  /\ pc = "done"
  /\ ordStatus = "FILLED"
  /\ order.status = "FINISHED"
  /\ "wait_update" \in gwCalls
  /\ call.name = "execute_signal"

\* C16: after an order is submitted, execute_signal and close_position
\* return only once the gateway has reported the order finished or
\* wait_update has raised: the poll loop is left by no other step (there is
\* no timeout and no cancellation), and under a gateway that eventually does
\* one of the two, every submitted order's operation eventually returns.
C16_PollUntilTerminal ==
  /\ [][pc = "polling" =>
         \/ pc' = "polling" /\ order' = order /\ result' = NoResult
         \/ /\ pc' = "done"
            /\ "wait_update" \in gwCalls'
            /\ result'.kind = "returned"
            /\ \/ order'.status = "FINISHED" /\ gwEnv'.error = <<>>
               \/ order'.status = "ALIVE" /\ gwEnv'.error # <<>>]_vars
  /\ (pc = "polling" ~> pc = "done")

\* a close order that stayed alive over an update and was then reported
\* finished
C16_Witness ==
  /\ pc = "done"
  /\ call.name = "close_position"
  /\ "wait_update" \in gwCalls
  /\ order.status = "FINISHED"
  /\ result.kind = "returned"

\* the model answered with a text, and analyze() has returned
Answered == response.called /\ ~response.raised

\* the structured parse of a text fails: no brace pair, text between the
\* braces that is not JSON, or JSON whose fields have the wrong shape
NoBracePair(text) ==
  ~(find(clean(text), "{") > 0
    /\ rfind(clean(text), "}") > find(clean(text), "{"))
Braced(text) ==
  SubSeq(clean(text), find(clean(text), "{"), rfind(clean(text), "}"))
MalformedJson(text) == ~NoBracePair(text) /\ json_loads(Braced(text)).raised
InvalidStructure(text) ==
  /\ ~NoBracePair(text)
  /\ ~json_loads(Braced(text)).raised
  /\ extract(json_loads(Braced(text)).data).raised

\* C19 as stated: a response whose structured parse fails (no brace pair,
\* malformed JSON, or JSON of invalid structure) goes to the keyword
\* fallback: analyze returns the fallback result, with success=true,
\* confidence low and a direction among LONG, SHORT and WAIT.
C19_FailureFallsBack ==
  (Answered /\ (\/ NoBracePair(response.text)
                \/ MalformedJson(response.text)
                \/ InvalidStructure(response.text))) =>
    /\ analyzed.key_points = FallbackKeyPoints
    /\ analyzed.success
    /\ analyzed.confidence_level = "low"
    /\ analyzed.direction \in {"LONG", "SHORT", "WAIT"}

OnFallbackPath == Answered /\ analyzed.key_points = FallbackKeyPoints

\* C20: on the fallback path, with p and n the numbers of bullish and
\* bearish lexicon words found in the lower-cased text, the result is LONG
\* with score 70 exactly when p > n + 1, SHORT with score 30 exactly when
\* n > p + 1, and WAIT with score 50 otherwise; exactly one of the three
\* holds, and score and direction depend on the text through p and n only.
C20_FallbackBuckets ==
  OnFallbackPath =>
    LET p == word_count(positive, response.text)
        n == word_count(negative, response.text)
        long == analyzed.direction = "LONG" /\ analyzed.sentiment_score = 70
        short == analyzed.direction = "SHORT" /\ analyzed.sentiment_score = 30
        wait == analyzed.direction = "WAIT" /\ analyzed.sentiment_score = 50
    IN /\ (long <=> p > n + 1)
       /\ (short <=> n > p + 1)
       /\ (wait <=> (p <= n + 1 /\ n <= p + 1))
       /\ (long \/ short \/ wait)
       /\ ~(long /\ short) /\ ~(long /\ wait) /\ ~(short /\ wait)
       /\ analyzed.success
       /\ analyzed.confidence_level = "low"

\* three bullish words (one of them found twice, once in upper case) against
\* one bearish word
C20_Witness ==
  /\ OnFallbackPath
  /\ response.text = <<"Bullish", "mairu", "LONG", "belong", "kongtou">>
  /\ word_count(positive, response.text) = 3
  /\ word_count(negative, response.text) = 1
  /\ analyzed.direction = "LONG" /\ analyzed.sentiment_score = 70

\* the side of the position a close_position call selects among what the
\* gateway holds on the symbol (LONG is listed before SHORT), "none" if
\* nothing matches the filter
SelectedSide(h, filter) ==
  IF filter \in {"ALL", "LONG"} /\ h[1] > 0 THEN "LONG"
  ELSE IF filter \in {"ALL", "SHORT"} /\ h[2] > 0 THEN "SHORT"
  ELSE "none"

\* C23 as stated: the volume of a close never exceeds the size of the
\* position it closes: for every requested volume v and selected position of
\* size n, close_position, dry-run or live, uses a closing volume between 1
\* and n.
C23_CloseWithinPosition ==
  (call.name = "close_position" /\ gwEnv.holdings # None) =>
    LET h == HeldOn(Value(gwEnv.holdings), call.symbol)
        d == SelectedSide(h, call.direction)
        n == IF d = "LONG" THEN h[1] ELSE h[2]
    IN d # "none" =>
         /\ (order # NoOrder => order.volume >= 1 /\ order.volume <= n)
         /\ ((pc = "done" /\ call.dry_run /\ result.success) =>
               result.volume >= 1 /\ result.volume <= n)

\* the context of a get_analysis_context call that went as far as the trend
TrendCase ==
  /\ context.op = "get_analysis_context" /\ ~context.error
  /\ context.klines # <<>> /\ context.ma # None

\* the price the bias is taken on: the quote's, the last bar's close when
\* the quote has none
LastClose ==
  IF context.last_price # 0 THEN context.last_price
  ELSE context.klines[Len(context.klines)]

UpTrend ==
  LET ma == Value(context.ma)
  IN ma.ma5.num * ma.ma10.den > ma.ma10.num * ma.ma5.den
     /\ ma.ma10.num * ma.ma20.den > ma.ma20.num * ma.ma10.den

DownTrend ==
  LET ma == Value(context.ma)
  IN ma.ma5.num * ma.ma10.den < ma.ma10.num * ma.ma5.den
     /\ ma.ma10.num * ma.ma20.den < ma.ma20.num * ma.ma10.den

\* (LastClose - ma5) / ma5 * 100 < k, the bias being 0 when ma5 is not
\* positive; ma5 has a positive denominator
BiasBelow(k) ==
  LET ma5 == Value(context.ma).ma5
  IN IF ma5.num > 0
     THEN (LastClose * ma5.den - ma5.num) * 100 < k * ma5.num
     ELSE 0 < k

\* C21 as stated: an up-trend (ma5 > ma10 > ma20) with bias in [3,5) yields
\* signal buy; overall, an up-trend with bias < 3 gives buy, an up-trend with
\* bias >= 5 gives hold, a down-trend gives sell, anything else gives wait.
C21_BandBuys ==
  TrendCase =>
    /\ (UpTrend /\ ~BiasBelow(3) /\ BiasBelow(5)) =>
          context.trend.signal = "buy"
    /\ (UpTrend /\ BiasBelow(3)) => context.trend.signal = "buy"
    /\ (UpTrend /\ ~BiasBelow(5)) => context.trend.signal = "hold"
    /\ DownTrend => context.trend.signal = "sell"
    /\ (~UpTrend /\ ~DownTrend) => context.trend.signal = "wait"

\* C21, amended: an up-trend with bias in [3,5) yields signal wait; an
\* up-trend with bias < 3 gives buy, an up-trend with bias >= 5 gives hold, a
\* down-trend gives sell, and a trend neither up nor down gives wait.
C21_SignalBands ==
  TrendCase =>
    /\ (UpTrend /\ ~BiasBelow(3) /\ BiasBelow(5)) =>
          context.trend.signal = "wait"
    /\ (UpTrend /\ BiasBelow(3)) => context.trend.signal = "buy"
    /\ (UpTrend /\ ~BiasBelow(5)) => context.trend.signal = "hold"
    /\ DownTrend => context.trend.signal = "sell"
    /\ (~UpTrend /\ ~DownTrend) => context.trend.signal = "wait"

\* an up-trend whose bias is exactly 3 has been given its signal
C21_Witness ==
  /\ TrendCase /\ UpTrend
  /\ ~BiasBelow(3) /\ BiasBelow(4)
  /\ context.last_price = 103
  /\ context.trend.status = "up" /\ context.trend.signal = "wait"

\* the mean of the closes of the last n bars equals the rational m
MeanOfLast(n, m) ==
  m.num * n = SumSeq(LastN(context.klines, n)) * m.den

\* C22 as stated: for each n in {5, 10, 20} and every kline series, ma_n
\* equals the mean of the closes of the last n bars whenever the series has
\* at least n bars, and is 0 when it has fewer than n bars; in particular
\* ma20 is exactly 0 for every series shorter than 20 bars.
C22_MeanOfLastN ==
  (context.op = "calculate_ma" /\ context.ma # None) =>
    LET ma == Value(context.ma)
        len == Len(context.klines)
    IN /\ IF len >= 5 THEN MeanOfLast(5, ma.ma5) ELSE ma.ma5.num = 0
       /\ IF len >= 10 THEN MeanOfLast(10, ma.ma10) ELSE ma.ma10.num = 0
       /\ IF len >= 20 THEN MeanOfLast(20, ma.ma20) ELSE ma.ma20.num = 0

====
